---- MODULE Spec2Model ----
(***************************************************************************)
(* Habits: the App state (data, view, selection, settings modal), the      *)
(* StatsView calendar with its staged-edit overlay, the single mutation    *)
(* toggleCompletion, and the asynchronous import whose result replaces     *)
(* the state.                                                              *)
(*                                                                         *)
(* Days are day numbers; a day-key "YYYY-MM-DD" is its day number. The      *)
(* clock does not pass midnight inside one behaviour: Today is fixed.      *)
(* A CompletionRecord is a total function from Days to markers, with the   *)
(* marker "absent" for a key that is not in the object.                    *)
(*                                                                         *)
(* The StatsView's derived series (score, streaks) are pure functions of   *)
(* its completions prop; SpecStats explores them over a longer window of   *)
(* days, in a time zone west of Greenwich or not. SpecHistory explores     *)
(* the history series, the calendar grid and the frequency grid over       *)
(* calendar dates (day numbers counted from 1970-01-01). SpecStart         *)
(* explores the two mount effects of the App and the stored item.          *)
(***************************************************************************)
EXTENDS Integers, FiniteSets, Sequences, TLC

\* The day number of today: the modelled days before today are 1 .. Today-1.
Today == 2
\* Number of import promises that may be pending at once.
MaxInFlight == 1

\* The modelled days: the days up to today and one day after today.
Days == 1 .. (Today + 1)

\* Habit ids. "h1" is the habit stored data and import files name;
\* "h2" is the habit the user adds (addHabit gives it a fresh uuid).
HabitIds == {"h1", "h2"}
StoredHabit == "h1"
AddedHabit == "h2"

\* boolean | number | undefined: true, false, the legacy codes 0, 1, 2,
\* and one other number (3).
Markers == {"absent", "false", "true", "0", "1", "2", "3"}

\* JavaScript truthiness of a marker: !!val.
Truthy(val) == val \in {"true", "1", "2", "3"}

\* val === true || val === 1 || val === 2
IsDone(val) == val \in {"true", "1", "2"}

\* {} : a CompletionRecord without keys.
EmptyRecord == [d \in Days |-> "absent"]

\* Object.keys(record)
Keys(record) == {d \in Days : record[d] # "absent"}

\* A record with the single key d.
OneKey(d, m) == [EmptyRecord EXCEPT ![d] = m]

\* data.completions[id] || {} for every id.
INITIAL_DATA == [h \in HabitIds |-> EmptyRecord]

\* The records localStorage may hold for the stored habit when the App
\* starts: at most one key, each marker in one of them.
StoredRecords ==
  {EmptyRecord, OneKey(Today, "3"), OneKey(Today, "0"), OneKey(Today, "2"),
   OneKey(1, "false"), OneKey(1, "1"), OneKey(Today + 1, "true")}

\* The records an uploaded file may hold for the stored habit: a past day
\* done, as every import adapter writes it.
ImportRecords == {OneKey(1, "true")}

VARIABLES
  habits,             \* data.habits (ids)
  completions,        \* data.completions
  view,               \* 'LIST' | 'STATS'
  selectedHabitId,    \* id or "null"
  showSettings,       \* SettingsModal open
  isEditingCalendar,  \* StatsView state
  pendingEdits,       \* StatsView state: the overlay
  inflight,           \* pending importFile promises
  toggled,            \* history: per day, the toggles of the last edit session
  sessionStart,       \* history: the record when that session opened
  sessionClean,       \* history: since that session opened, data was written
                      \*   by its commit alone
  analysis,           \* the StatsView whose derived series are analysed: its
                      \*   completions prop and the time zone it runs in
  stored,             \* localStorage: the item under STORAGE_KEY
  startup             \* the App's mount: position of its effects, the queued
                      \*   setData of the load effect, the item found at mount

vars == <<habits, completions, view, selectedHabitId, showSettings,
          isEditingCalendar, pendingEdits, inflight,
          toggled, sessionStart, sessionClean, analysis, stored, startup>>

appVars == <<habits, completions, view, selectedHabitId, showSettings>>
statsVars == <<isEditingCalendar, pendingEdits>>
histVars == <<toggled, sessionStart, sessionClean>>

NoToggles == [d \in Days |-> "none"]

\* view === 'STATS' && selectedHabit : the StatsView is rendered.
Mounted(v, sel, hs) == v = "STATS" /\ sel \in hs

\* selectedHabitId ? (data.completions[selectedHabitId] || {}) : {}
selectedCompletions ==
  IF selectedHabitId \in HabitIds THEN completions[selectedHabitId] ELSE EmptyRecord

-----------------------------------------------------------------------------
\* App.toggleCompletion's updater: prev.completions -> newCompletions.
toggleCompletionNoSpread(prev, habitId, date) ==
  [prev EXCEPT ![habitId] =
     [EmptyRecord EXCEPT ![date] = IF ~Truthy(prev[habitId][date]) THEN "true" ELSE "absent"]]

toggleCompletion(prev, habitId, date) ==
  LET currentVal == prev[habitId][date]
      newStatus == ~Truthy(currentVal)
  IN  [prev EXCEPT ![habitId][date] = IF newStatus THEN "true" ELSE "absent"]

\* StatsView.getVisualCompletion
getVisualCompletion(dateStr) ==
  IF isEditingCalendar /\ pendingEdits[dateStr] # "absent"
  THEN pendingEdits[dateStr] = "true"
  ELSE IsDone(selectedCompletions[dateStr])

\* The updater handleToggle gives setPendingEdits in edit mode.
togglePendingStoreFalse(prev, record, dateStr) ==
  LET currentVal == IF prev[dateStr] # "absent" THEN prev[dateStr] ELSE record[dateStr]
  IN  [prev EXCEPT ![dateStr] = IF ~Truthy(currentVal) THEN "true" ELSE "false"]

togglePendingKeep(prev, record, dateStr) ==
  [prev EXCEPT ![dateStr] = IF ~Truthy(record[dateStr]) THEN "true" ELSE "absent"]

togglePending(prev, record, dateStr) ==
  LET currentVal == IF prev[dateStr] # "absent" THEN prev[dateStr] ELSE record[dateStr]
      newVal == ~Truthy(currentVal)
  IN  [prev EXCEPT ![dateStr] = IF newVal THEN "true" ELSE "absent"]

\* The calendar cell's disabled attribute.
cellDisabledFutureOpen(d) ==
  ~(d = Today) /\ ~isEditingCalendar

cellDisabled(d) ==
  LET isToday == d = Today
      isFuture == d > Today
  IN  isFuture \/ (~isToday /\ ~isEditingCalendar)

\* Object.keys(pendingEdits).forEach(dateStr => onToggle(dateStr)),
\* the keys taken in the order of the sequence.
replayStale(prev, habitId, keys) ==
  IF keys = << >> THEN prev
  ELSE toggleCompletion(prev, habitId, keys[Len(keys)])

RECURSIVE replay(_, _, _)
replay(prev, habitId, keys) ==
  IF keys = << >> THEN prev
  ELSE replay(toggleCompletion(prev, habitId, Head(keys)), habitId, Tail(keys))

\* The orders in which a set of keys may be enumerated.
RECURSIVE Orders(_)
Orders(S) ==
  IF S = {} THEN {<< >>}
  ELSE UNION {{<<d>> \o s : s \in Orders(S \ {d})} : d \in S}

\* importService.importJSON: the file holds one habit, named like the
\* stored habit, with the record `file`; currentData is the snapshot.
importJSON(file, currentHabits, currentCompletions) ==
  IF StoredHabit \in currentHabits
  THEN LET existingCompletions == currentCompletions[StoredHabit]
           merged == [date \in Days |->
                        IF file[date] # "absent" /\ ~Truthy(existingCompletions[date])
                        THEN file[date]
                        ELSE existingCompletions[date]]
       IN  [habits |-> currentHabits,
            completions |-> [currentCompletions EXCEPT ![StoredHabit] = merged]]
  ELSE [habits |-> currentHabits \cup {StoredHabit},
        completions |-> [currentCompletions EXCEPT ![StoredHabit] = file]]

-----------------------------------------------------------------------------
\* The StatsView's derived series are computed over a window of days longer
\* than the App's: the days 1 .. MaxDay, today being the day before the last.
MaxDay == 12
StatsDays == 1 .. MaxDay
StatsToday == MaxDay - 1

\* Scores are numbers in units of 1/Scale, rounded down.
Scale == 10000
\* Math.pow(0.5, Math.sqrt(frequency) / 13.0), frequency = 1.0, in these units.
Multiplier == 9481

\* {} and Object.keys for a record over the longer window.
StatsEmpty == [d \in StatsDays |-> "absent"]
StatsKeys(record) == {d \in StatsDays : record[d] # "absent"}

\* While the App is explored no StatsView is analysed.
NoAnalysis == [completions |-> StatsEmpty, west |-> FALSE, imported |-> FALSE]

Min(S) == CHOOSE x \in S : \A y \in S : x <= y

\* Object.keys(...).sort(): day-keys in ascending order.
RECURSIVE sorted(_)
sorted(S) == IF S = {} THEN << >> ELSE <<Min(S)>> \o sorted(S \ {Min(S)})

\* new Date("YYYY-MM-DD") is midnight UTC of the day; setHours(0, 0, 0, 0)
\* moves it to the local midnight at or before it: the same day at and east
\* of Greenwich, the day before west of it.
localMidnightOfKey(d, west) == IF west THEN d - 1 ELSE d

\* computeScore, with the multiplier of frequency 1.0
computeScoreNoWeight(previousScore, checkmarkValue) ==
  (previousScore * Multiplier) \div Scale + checkmarkValue * Scale

computeScore(previousScore, checkmarkValue) ==
  (previousScore * Multiplier) \div Scale + checkmarkValue * (Scale - Multiplier)

\* allScores' while loop: from current through today.
RECURSIVE scoreWalk(_, _, _, _)
scoreWalk(record, current, currentScore, scoreMap) ==
  IF current > StatsToday THEN scoreMap
  ELSE LET val == IF current \in StatsDays THEN record[current] ELSE "absent"
           checkmarkValue == IF IsDone(val) THEN 1 ELSE 0
           newScore == computeScore(currentScore, checkmarkValue)
       IN  scoreWalk(record, current + 1, newScore, scoreMap @@ (current :> newScore))

\* StatsView.allScores: scoreMap, a function from the days it has an entry for.
allScoresSeedOne(record, west) ==
  LET dateKeys == sorted(StatsKeys(record))
  IN  IF Len(dateKeys) = 0 THEN << >>
      ELSE scoreWalk(record, localMidnightOfKey(dateKeys[1], west), Scale, << >>)

allScores(record, west) ==
  LET dateKeys == sorted(StatsKeys(record))
  IN  IF Len(dateKeys) = 0 THEN << >>
      ELSE scoreWalk(record, localMidnightOfKey(dateKeys[1], west), 0, << >>)

\* Math.round(x * 100) of a score x
roundPercent(x) == (x * 100 + Scale \div 2) \div Scale

\* StatsView.score: Math.round((allScores[todayStr] || 0) * 100)
score(record, west) ==
  LET scoreMap == allScores(record, west)
      todayScore == IF StatsToday \in DOMAIN scoreMap THEN scoreMap[StatsToday] ELSE 0
  IN  roundPercent(todayScore)

\* StatsView.streaks: the keys with a done marker, ascending.
doneDates(record) == sorted({d \in StatsDays : IsDone(record[d])})

\* diffDays of two day-keys, both parsed as midnight UTC.
diffDays(prev, curr) == IF curr >= prev THEN curr - prev ELSE prev - curr

\* streaks' for loop from index i (1-based), and the push that follows it.
RECURSIVE streakWalkNoLastPush(_, _, _, _)
streakWalkNoLastPush(sortedDates, i, currentStreak, result) ==
  IF i > Len(sortedDates) THEN result
  ELSE IF diffDays(sortedDates[i - 1], sortedDates[i]) = 1
       THEN streakWalkNoLastPush(sortedDates, i + 1,
                       [currentStreak EXCEPT !.end = sortedDates[i], !.length = @ + 1],
                       result)
       ELSE streakWalkNoLastPush(sortedDates, i + 1,
                       [start |-> sortedDates[i], end |-> sortedDates[i], length |-> 1],
                       Append(result, currentStreak))

RECURSIVE streakWalkGapTwo(_, _, _, _)
streakWalkGapTwo(sortedDates, i, currentStreak, result) ==
  IF i > Len(sortedDates) THEN Append(result, currentStreak)
  ELSE IF diffDays(sortedDates[i - 1], sortedDates[i]) <= 2
       THEN streakWalkGapTwo(sortedDates, i + 1,
                       [currentStreak EXCEPT !.end = sortedDates[i], !.length = @ + 1],
                       result)
       ELSE streakWalkGapTwo(sortedDates, i + 1,
                       [start |-> sortedDates[i], end |-> sortedDates[i], length |-> 1],
                       Append(result, currentStreak))

RECURSIVE streakWalk(_, _, _, _)
streakWalk(sortedDates, i, currentStreak, result) ==
  IF i > Len(sortedDates) THEN Append(result, currentStreak)
  ELSE IF diffDays(sortedDates[i - 1], sortedDates[i]) = 1
       THEN streakWalk(sortedDates, i + 1,
                       [currentStreak EXCEPT !.end = sortedDates[i], !.length = @ + 1],
                       result)
       ELSE streakWalk(sortedDates, i + 1,
                       [start |-> sortedDates[i], end |-> sortedDates[i], length |-> 1],
                       Append(result, currentStreak))

\* The streaks detected, in the order of the walk, before sort and slice.
closedStreaks(record) ==
  LET sortedDates == doneDates(record)
  IN  IF Len(sortedDates) = 0 THEN << >>
      ELSE streakWalk(sortedDates, 2,
                      [start |-> sortedDates[1], end |-> sortedDates[1], length |-> 1],
                      << >>)

\* result.sort((a, b) => b.length - a.length): Array.prototype.sort is stable.
RECURSIVE insertByLength(_, _)
insertByLength(seq, s) ==
  IF seq = << >> THEN <<s>>
  ELSE IF Head(seq).length >= s.length
       THEN <<Head(seq)>> \o insertByLength(Tail(seq), s)
       ELSE <<s>> \o seq

RECURSIVE sortByLengthAscending(_)
sortByLengthAscending(seq) ==
  IF seq = << >> THEN << >>
  ELSE LET rest == sortByLengthAscending(Tail(seq))
           smaller == SelectSeq(rest, LAMBDA t : t.length < Head(seq).length)
           others == SelectSeq(rest, LAMBDA t : t.length >= Head(seq).length)
       IN  smaller \o <<Head(seq)>> \o others

RECURSIVE sortByLength(_)
sortByLength(seq) ==
  IF seq = << >> THEN << >>
  ELSE insertByLength(sortByLength(SubSeq(seq, 1, Len(seq) - 1)), seq[Len(seq)])

\* slice(0, 5)
TopStreaks == 5
slice(seq) == SubSeq(seq, 1, IF Len(seq) < TopStreaks THEN Len(seq) ELSE TopStreaks)

\* StatsView.streaks
streaks(record) == slice(sortByLength(closedStreaks(record)))

\* The item under STORAGE_KEY: JSON.stringify(data), read back by JSON.parse;
\* getItem gives null when there is none.
item(hs, cs) == [present |-> TRUE, habits |-> hs, completions |-> cs]
NoItem == [present |-> FALSE, habits |-> {}, completions |-> INITIAL_DATA]

\* The App after its mount effects have run.
Started == [pc |-> "done", queued |-> NoItem, before |-> NoItem]

\* Save data on change: the effect [data] that follows the render of a
\* handler's setData.
saveEffect ==
  /\ stored' = IF <<habits', completions'>> # <<habits, completions>>
               THEN item(habits', completions')
               ELSE stored
  /\ UNCHANGED startup

-----------------------------------------------------------------------------
\* Calendar arithmetic of the JavaScript Date, for the history, the calendar
\* grid and the frequency grid. A Date at local midnight is its day number:
\* the days since 1970-01-01.

\* new Date(y, m - 1, d) of an in-range date "y-m-d"
daysFromCivil(y, m, d) ==
  LET yy == IF m <= 2 THEN y - 1 ELSE y
      era == yy \div 400
      yoe == yy - era * 400
      mp == IF m > 2 THEN m - 3 ELSE m + 9
      doy == (153 * mp + 2) \div 5 + d - 1
      doe == yoe * 365 + yoe \div 4 - yoe \div 100 + doy
  IN  era * 146097 + doe - 719468

\* The local calendar date of a day number: year, month (1..12), date.
civil(n) ==
  LET z == n + 719468
      era == z \div 146097
      doe == z - era * 146097
      yoe == (doe - doe \div 1460 + doe \div 36524 - doe \div 146096) \div 365
      doy == doe - (365 * yoe + yoe \div 4 - yoe \div 100)
      mp == (5 * doy + 2) \div 153
      d == doy - (153 * mp + 2) \div 5 + 1
      m == IF mp < 10 THEN mp + 3 ELSE mp - 9
  IN  [year |-> yoe + era * 400 + (IF m <= 2 THEN 1 ELSE 0), month |-> m, date |-> d]

getFullYear(n) == civil(n).year
\* getMonth(): 0 = January
getMonth(n) == civil(n).month - 1
getDate(n) == civil(n).date
\* getDay(): 0 = Sunday; 1970-01-01 was a Thursday
getDay(n) == (n + 4) % 7

\* new Date(year, monthIndex, date): a month index or a date out of range
\* carries over.
newDate(year, monthIndex, date) ==
  daysFromCivil(year + monthIndex \div 12, (monthIndex % 12) + 1, 1) + date - 1

\* d.setFullYear(year)
setFullYear(n, year) == newDate(year, getMonth(n), getDate(n))

\* completions[dateStr], Object.keys and the done keys of a record given by
\* the day numbers of its keys.
markerOf(record, d) == IF d \in DOMAIN record THEN record[d] ELSE "absent"
keysOf(record) == {d \in DOMAIN record : record[d] # "absent"}
doneKeys(record) == {d \in DOMAIN record : IsDone(record[d])}

\* new Date("YYYY-MM-DD") < the local midnight of day n
keyBefore(d, west, n) == localMidnightOfKey(d, west) < n

\* The Monday of the week of day n: setDate(getDate() - diff).
mondayOf(n) ==
  LET dayOfWeek == getDay(n)
      diff == IF dayOfWeek = 0 THEN 6 ELSE dayOfWeek - 1
  IN  n - diff

\* historyData: startYear, with its clamp.
MinYear == 2000
historyStartYear(record, today) ==
  LET sortedDates == sorted(doneKeys(record))
      startYear == IF Len(sortedDates) > 0 THEN getFullYear(sortedDates[1])
                   ELSE getFullYear(today)
  IN  IF startYear > MinYear THEN startYear ELSE MinYear

\* historyData, YEARLY: for (y = startYear; y <= today.getFullYear(); y++)
RECURSIVE yearlyLoop(_, _, _, _)
yearlyLoop(done, y, endYear, data) ==
  IF y > endYear THEN data
  ELSE yearlyLoop(done, y + 1, endYear,
         Append(data, [period |-> y,
                       count |-> Cardinality({d \in done : getFullYear(d) = y})]))

\* Math.ceil(m / 3) of a month 1..12
quarterOf(m) == (m + 2) \div 3

\* historyData, QUARTERLY: the while loop over (currentY, currentQ)
RECURSIVE quarterlyLoop(_, _, _, _, _, _)
quarterlyLoop(done, currentY, currentQ, endY, endQ, data) ==
  IF ~(currentY < endY \/ (currentY = endY /\ currentQ <= endQ)) THEN data
  ELSE LET count == Cardinality({d \in done : /\ getFullYear(d) = currentY
                                              /\ quarterOf(civil(d).month) = currentQ})
           pushed == Append(data, [period |-> <<currentY, currentQ>>, count |-> count])
       IN  IF currentQ + 1 > 4
           THEN quarterlyLoop(done, currentY + 1, 1, endY, endQ, pushed)
           ELSE quarterlyLoop(done, currentY, currentQ + 1, endY, endQ, pushed)

\* historyData, MONTHLY: while (currentD <= endD), a month further each turn.
\* The k-th turn has currentD = new Date(startYear, k - 1, 1); the turns taken
\* are those whose currentD passes the loop's test.
monthlyLoopSparse(done, startYear, endD) ==
  LET currentD(k) == newDate(startYear, k - 1, 1)
      turns == {k \in 1 .. ((endD - currentD(1)) \div 28 + 2) : currentD(k) <= endD}
      all == [k \in 1 .. Cardinality(turns) |->
                [period |-> <<getFullYear(currentD(k)), getMonth(currentD(k)) + 1>>,
                 count |-> Cardinality({d \in done :
                                          /\ getFullYear(d) = getFullYear(currentD(k))
                                          /\ getMonth(d) = getMonth(currentD(k))})]]
  IN  SelectSeq(all, LAMBDA b : b.count > 0)

monthlyLoop(done, startYear, endD) ==
  LET currentD(k) == newDate(startYear, k - 1, 1)
      turns == {k \in 1 .. ((endD - currentD(1)) \div 28 + 2) : currentD(k) <= endD}
  IN  [k \in 1 .. Cardinality(turns) |->
         [period |-> <<getFullYear(currentD(k)), getMonth(currentD(k)) + 1>>,
          count |-> Cardinality({d \in done :
                                   /\ getFullYear(d) = getFullYear(currentD(k))
                                   /\ getMonth(d) = getMonth(currentD(k))})]]

\* historyData, WEEKLY: while (currentDate <= today), 7 days further each
\* turn; the k-th turn has currentDate = startDate + 7 * (k - 1).
weeklyLoop(done, startDate, today) ==
  LET currentDate(k) == startDate + 7 * (k - 1)
      turns == {k \in 1 .. ((today - startDate) \div 7 + 2) : currentDate(k) <= today}
  IN  [k \in 1 .. Cardinality(turns) |->
         [period |-> currentDate(k),
          count |-> Cardinality({d \in done : /\ d >= currentDate(k)
                                              /\ d <= currentDate(k) + 6})]]

\* historyData, WEEKLY: startDate before its alignment, as a local day
weeklyStartDate(record, today, west) ==
  LET sortedDates == sorted(doneKeys(record))
      startDate == setFullYear(today, getFullYear(today) - 1)
  IN  IF Len(sortedDates) > 0 /\ keyBefore(sortedDates[1], west, startDate)
      THEN localMidnightOfKey(sortedDates[1], west)
      ELSE startDate

HistoryRanges == {"WEEKLY", "MONTHLY", "QUARTERLY", "YEARLY"}

\* StatsView.historyData: the buckets, each with its period and its count
historyData(record, today, west, historyRange) ==
  LET done == doneKeys(record)
      startYear == historyStartYear(record, today)
  IN  CASE historyRange = "YEARLY" ->
             yearlyLoop(done, startYear, getFullYear(today), << >>)
        [] historyRange = "QUARTERLY" ->
             quarterlyLoop(done, startYear, 1, getFullYear(today),
                           getMonth(today) \div 3 + 1, << >>)
        [] historyRange = "MONTHLY" ->
             monthlyLoop(done, startYear, today)
        [] historyRange = "WEEKLY" ->
             weeklyLoop(done, mondayOf(weeklyStartDate(record, today, west)), today)

\* Calendar grid: the range start before its alignment (parseLocal gives the
\* local midnight of the earliest key).
calendarStart(record, today) ==
  LET sortedDates == sorted(keysOf(record))
      start == setFullYear(today, getFullYear(today) - 1)
      threeYearsAgo == setFullYear(today, getFullYear(today) - 3)
  IN  IF Len(sortedDates) > 0
      THEN LET first == sortedDates[1]
               earlier == IF first < start THEN first ELSE start
           IN  IF earlier < threeYearsAgo THEN threeYearsAgo ELSE earlier
      ELSE start

\* Align start to Monday: start.setDate(start.getDate() - day + (day === 0 ? -6 : 1))
alignToMondayNoSunday(start) ==
  newDate(getFullYear(start), getMonth(start), getDate(start) - getDay(start) + 1)

alignToMonday(start) ==
  LET day == getDay(start)
      diff == getDate(start) - day + (IF day = 0 THEN -6 ELSE 1)
  IN  newDate(getFullYear(start), getMonth(start), diff)

\* while (current <= end && safetyCounter < 1000): one week of 7 days a turn;
\* the k-th turn has current = start + 7 * (k - 1), safetyCounter = k - 1.
weeksLoop(start, end) ==
  LET current(k) == start + 7 * (k - 1)
      turns == {k \in 1 .. ((end - start) \div 7 + 2) : current(k) <= end /\ k - 1 < 1000}
  IN  [k \in 1 .. Cardinality(turns) |-> [i \in 1 .. 7 |-> current(k) + i - 1]]

\* StatsView.weeks
weeks(record, today) ==
  weeksLoop(alignToMonday(calendarStart(record, today)), today + 14)

\* frequencyData: startDate, as a local day
frequencyStart(record, today, west) ==
  LET sortedDates == sorted(keysOf(record))
      startDate == setFullYear(today, getFullYear(today) - 1)
  IN  IF Len(sortedDates) > 0 /\ keyBefore(sortedDates[1], west, startDate)
      THEN localMidnightOfKey(sortedDates[1], west)
      ELSE startDate

\* frequencyData: while (current <= today), a month further each turn; the
\* k-th turn has current = firstMonth moved on by k - 1 months.
monthsLoop(firstMonth, today) ==
  LET current(k) == newDate(getFullYear(firstMonth), getMonth(firstMonth) + k - 1,
                            getDate(firstMonth))
      turns == {k \in 1 .. ((today - firstMonth) \div 28 + 2) : current(k) <= today}
  IN  [k \in 1 .. Cardinality(turns) |-> current(k)]

\* new Date(year, month + 1, 0).getDate()
daysInMonth(monthDate) ==
  getDate(newDate(getFullYear(monthDate), getMonth(monthDate) + 1, 0))

\* frequencyData: the distribution of one month, indexed by getDay()
distributionShort(record, monthDate) ==
  LET dayDate(i) == newDate(getFullYear(monthDate), getMonth(monthDate), i)
      counted == {i \in 1 .. (daysInMonth(monthDate) - 1) : IsDone(markerOf(record, dayDate(i)))}
  IN  [w \in 0 .. 6 |-> Cardinality({i \in counted : getDay(dayDate(i)) = w})]

distribution(record, monthDate) ==
  LET dayDate(i) == newDate(getFullYear(monthDate), getMonth(monthDate), i)
      counted == {i \in 1 .. daysInMonth(monthDate) : IsDone(markerOf(record, dayDate(i)))}
  IN  [w \in 0 .. 6 |-> Cardinality({i \in counted : getDay(dayDate(i)) = w})]

\* StatsView.frequencyData
frequencyData(record, today, west) ==
  LET startDate == frequencyStart(record, today, west)
      firstMonth == newDate(getFullYear(startDate), getMonth(startDate), 1)
      monthsToShow == monthsLoop(firstMonth, today)
  IN  [k \in 1 .. Len(monthsToShow) |->
         [month |-> <<getFullYear(monthsToShow[k]), getMonth(monthsToShow[k]) + 1>>,
          distribution |-> distribution(record, monthsToShow[k])]]

-----------------------------------------------------------------------------
Init ==
  /\ habits \in {{}, {StoredHabit}}
  /\ completions \in {[INITIAL_DATA EXCEPT ![StoredHabit] = r] :
                        r \in IF StoredHabit \in habits THEN StoredRecords ELSE {EmptyRecord}}
  /\ view = "LIST"
  /\ selectedHabitId = "null"
  /\ showSettings = FALSE
  /\ isEditingCalendar = FALSE
  /\ pendingEdits = EmptyRecord
  /\ inflight = {}
  /\ toggled = NoToggles
  /\ sessionStart = EmptyRecord
  /\ sessionClean = FALSE
  /\ analysis = NoAnalysis
  /\ stored = item(habits, completions)
  /\ startup = Started

\* A StatsView that is not rendered holds no state: useState(false), useState({}).
StatsFresh ==
  /\ isEditingCalendar' = FALSE
  /\ pendingEdits' = EmptyRecord
  /\ toggled' = NoToggles
  /\ sessionStart' = EmptyRecord
  /\ sessionClean' = FALSE

\* A write to data that does not come from the StatsView: the instance, if it
\* stays rendered, keeps its state; the open session is no longer clean.
StatsAfterOutsideWrite ==
  IF Mounted(view, selectedHabitId, habits) /\ Mounted(view', selectedHabitId', habits')
  THEN /\ UNCHANGED statsVars
       /\ toggled' = NoToggles
       /\ sessionStart' = EmptyRecord
       /\ sessionClean' = FALSE
  ELSE StatsFresh

\* HabitCard onSelect
SelectHabit(h) ==
  /\ view = "LIST" /\ ~showSettings
  /\ h \in habits
  /\ selectedHabitId' = h
  /\ view' = "STATS"
  /\ UNCHANGED <<habits, completions, showSettings, inflight>>
  /\ StatsFresh
  /\ UNCHANGED analysis
  /\ saveEffect

\* StatsView onBack
BackKeepsState ==
  /\ Mounted(view, selectedHabitId, habits)
  /\ view' = "LIST"
  /\ UNCHANGED <<habits, completions, selectedHabitId, showSettings, inflight,
                 statsVars, histVars>>
  /\ UNCHANGED analysis
  /\ saveEffect

Back ==
  /\ Mounted(view, selectedHabitId, habits)
  /\ view' = "LIST"
  /\ UNCHANGED <<habits, completions, selectedHabitId, showSettings, inflight>>
  /\ StatsFresh
  /\ UNCHANGED analysis
  /\ saveEffect

\* App.deleteHabit, from the StatsView header
deleteHabit ==
  /\ Mounted(view, selectedHabitId, habits)
  /\ habits' = habits \ {selectedHabitId}
  /\ completions' = [completions EXCEPT ![selectedHabitId] = EmptyRecord]
  /\ view' = "LIST"
  /\ selectedHabitId' = "null"
  /\ UNCHANGED <<showSettings, inflight>>
  /\ StatsFresh
  /\ UNCHANGED analysis
  /\ saveEffect

\* App.addHabit, from the AddHabitModal
addHabit ==
  /\ view = "LIST" /\ ~showSettings
  /\ AddedHabit \notin habits
  /\ habits' = habits \cup {AddedHabit}
  /\ completions' = [completions EXCEPT ![AddedHabit] = EmptyRecord]
  /\ UNCHANGED <<view, selectedHabitId, showSettings, inflight, statsVars, histVars>>
  /\ UNCHANGED analysis
  /\ saveEffect

\* getPastDays(5), as far as the modelled days reach
recentDays == {d \in Days : d <= Today /\ d > Today - 5}

\* HabitCard: const isCompleted = !!completions[dateStr]
isCompleted(h, d) == Truthy(completions[h][d])

\* HabitCard day button
CardToggle(h, d) ==
  /\ view = "LIST" /\ ~showSettings
  /\ h \in habits
  /\ d \in recentDays
  /\ completions' = toggleCompletion(completions, h, d)
  /\ UNCHANGED <<habits, view, selectedHabitId, showSettings, inflight, statsVars, histVars>>
  /\ UNCHANGED analysis
  /\ saveEffect

\* Header menu button
OpenSettings ==
  /\ view = "LIST" /\ ~showSettings
  /\ showSettings' = TRUE
  /\ UNCHANGED <<habits, completions, view, selectedHabitId, inflight, statsVars, histVars>>
  /\ UNCHANGED analysis
  /\ saveEffect

\* SettingsModal onClose: the modal unmounts, its pending upload runs on.
CloseSettings ==
  /\ showSettings
  /\ showSettings' = FALSE
  /\ inflight' = {[i EXCEPT !.attached = FALSE] : i \in inflight}
  /\ UNCHANGED <<habits, completions, view, selectedHabitId, statsVars, histVars>>
  /\ UNCHANGED analysis
  /\ saveEffect

\* SettingsModal.handleFileUpload up to its await: importFile(file, data)
\* holds the data of this render. The Import button is disabled while the
\* modal that started an upload is loading.
handleFileUpload(file) ==
  /\ showSettings
  /\ \A i \in inflight : ~i.attached
  /\ Cardinality(inflight) < MaxInFlight
  /\ inflight' = inflight \cup {[file |-> file, habits |-> habits,
                                 completions |-> completions, attached |-> TRUE]}
  /\ UNCHANGED <<appVars, statsVars, histVars>>
  /\ UNCHANGED analysis
  /\ saveEffect

\* handleFileUpload after its await: onImport(newData), which is
\* App.handleImport: setData(newData).
handleImport(i) ==
  /\ i \in inflight
  /\ LET newData == importJSON(i.file, i.habits, i.completions)
     IN  /\ habits' = newData.habits
         /\ completions' = newData.completions
  /\ inflight' = inflight \ {i}
  /\ UNCHANGED <<view, selectedHabitId, showSettings>>
  /\ StatsAfterOutsideWrite
  /\ UNCHANGED analysis
  /\ saveEffect

\* handleFileUpload's catch: importFile rejected.
ImportError(i) ==
  /\ i \in inflight
  /\ inflight' = inflight \ {i}
  /\ UNCHANGED <<appVars, statsVars, histVars>>
  /\ UNCHANGED analysis
  /\ saveEffect

\* Reset All Data: onClear(); onClose()
ClearAll ==
  /\ showSettings
  /\ habits' = {}
  /\ completions' = INITIAL_DATA
  /\ showSettings' = FALSE
  /\ inflight' = {[i EXCEPT !.attached = FALSE] : i \in inflight}
  /\ UNCHANGED <<view, selectedHabitId, statsVars, histVars>>
  /\ UNCHANGED analysis
  /\ saveEffect

-----------------------------------------------------------------------------
\* One more toggle of a day in the open session.
Count(c) == IF c = "odd" THEN "even" ELSE "odd"

\* StatsView.handleToggle
handleToggleThrough(dateStr) ==
  /\ completions' = toggleCompletion(completions, selectedHabitId, dateStr)
  /\ IF isEditingCalendar
     THEN pendingEdits' = togglePending(pendingEdits, selectedCompletions, dateStr)
     ELSE UNCHANGED pendingEdits
  /\ UNCHANGED <<habits, view, selectedHabitId, showSettings, inflight,
                 isEditingCalendar, histVars>>

handleToggle(dateStr) ==
  IF isEditingCalendar
  THEN /\ pendingEdits' = togglePending(pendingEdits, selectedCompletions, dateStr)
       /\ toggled' = IF sessionClean
                     THEN [toggled EXCEPT ![dateStr] = Count(toggled[dateStr])]
                     ELSE toggled
       /\ UNCHANGED <<appVars, inflight, isEditingCalendar, sessionStart, sessionClean>>
  ELSE /\ completions' = toggleCompletion(completions, selectedHabitId, dateStr)
       /\ toggled' = NoToggles
       /\ sessionStart' = EmptyRecord
       /\ sessionClean' = FALSE
       /\ UNCHANGED <<habits, view, selectedHabitId, showSettings, inflight, statsVars>>

\* A click on a calendar cell that is not disabled.
ClickCell(d) ==
  /\ Mounted(view, selectedHabitId, habits)
  /\ ~cellDisabled(d)
  /\ handleToggle(d)
  /\ UNCHANGED analysis
  /\ saveEffect

\* StatsView.handleDoneEditing
handleDoneEditingKeepEdits ==
  /\ \E keys \in Orders(Keys(pendingEdits)) :
        completions' = replay(completions, selectedHabitId, keys)
  /\ isEditingCalendar' = FALSE
  /\ UNCHANGED <<habits, view, selectedHabitId, showSettings, inflight, histVars,
                 pendingEdits>>

handleDoneEditing ==
  /\ \E keys \in Orders(Keys(pendingEdits)) :
        completions' = replay(completions, selectedHabitId, keys)
  /\ pendingEdits' = EmptyRecord
  /\ isEditingCalendar' = FALSE
  /\ UNCHANGED <<habits, view, selectedHabitId, showSettings, inflight, histVars>>

\* setIsEditingCalendar(true)
startEditing ==
  /\ isEditingCalendar' = TRUE
  /\ toggled' = NoToggles
  /\ sessionStart' = selectedCompletions
  /\ sessionClean' = TRUE
  /\ UNCHANGED <<appVars, inflight, pendingEdits>>

\* The EDIT / DONE button
ClickEditDone ==
  /\ Mounted(view, selectedHabitId, habits)
  /\ IF isEditingCalendar THEN handleDoneEditing ELSE startEditing
  /\ UNCHANGED analysis
  /\ saveEffect

-----------------------------------------------------------------------------
\* The App whose habits are the stored and the imported one.
Next ==
  \/ \E h \in HabitIds : SelectHabit(h)
  \/ Back
  \/ deleteHabit
  \/ \E h \in HabitIds, d \in Days : CardToggle(h, d)
  \/ OpenSettings
  \/ CloseSettings
  \/ \E file \in ImportRecords : handleFileUpload(file)
  \/ \E i \in inflight : handleImport(i)
  \/ \E i \in inflight : ImportError(i)
  \/ ClearAll
  \/ \E d \in Days : ClickCell(d)
  \/ ClickEditDone

Spec == Init /\ [][Next]_vars

\* The App in which the user also adds a habit.
NextApp == Next \/ addHabit

SpecApp == Init /\ [][NextApp]_vars

\* The values of the App's variables while a StatsView is analysed.
appSide == <<habits, completions, view, selectedHabitId, showSettings,
             isEditingCalendar, pendingEdits, inflight,
             toggled, sessionStart, sessionClean, stored, startup>>

\* A StatsView with an empty completions prop, in a time zone west of
\* Greenwich or not.
InitStats ==
  /\ habits = {}
  /\ completions = INITIAL_DATA
  /\ view = "LIST"
  /\ selectedHabitId = "null"
  /\ showSettings = FALSE
  /\ isEditingCalendar = FALSE
  /\ pendingEdits = EmptyRecord
  /\ inflight = {}
  /\ toggled = NoToggles
  /\ sessionStart = EmptyRecord
  /\ sessionClean = FALSE
  /\ analysis \in {[completions |-> StatsEmpty, west |-> w, imported |-> FALSE] :
                     w \in BOOLEAN}
  /\ stored = item(habits, completions)
  /\ startup = Started

\* The markers an import writes besides true.
ImportMarkers == {"false", "2", "3"}

\* The prop after App.toggleCompletion on a day up to today.
StatsToggle(d) ==
  /\ d <= StatsToday
  /\ LET prev == [h \in {StoredHabit} |-> analysis.completions]
     IN  analysis' = [analysis EXCEPT
                        !.completions = toggleCompletion(prev, StoredHabit, d)[StoredHabit]]
  /\ UNCHANGED appSide

\* The prop after an import that adds one key (importJSON: if (!existing[date])).
StatsImport(d, m) ==
  /\ ~analysis.imported
  /\ ~Truthy(analysis.completions[d])
  /\ analysis' = [analysis EXCEPT !.completions[d] = m, !.imported = TRUE]
  /\ UNCHANGED appSide

NextStats ==
  \/ \E d \in StatsDays : StatsToggle(d)
  \/ \E d \in StatsDays, m \in ImportMarkers : StatsImport(d, m)

SpecStats == InitStats /\ [][NextStats]_vars

-----------------------------------------------------------------------------
\* The App from its mount on. The items localStorage may hold at mount: none,
\* the empty data, or the stored habit with one of its records.
StoredItems ==
  {NoItem, item({}, INITIAL_DATA)}
    \cup {item({StoredHabit}, [INITIAL_DATA EXCEPT ![StoredHabit] = r]) :
            r \in StoredRecords}

\* useState(INITIAL_DATA), the first render done, no effect run yet.
InitStart ==
  /\ habits = {}
  /\ completions = INITIAL_DATA
  /\ view = "LIST"
  /\ selectedHabitId = "null"
  /\ showSettings = FALSE
  /\ isEditingCalendar = FALSE
  /\ pendingEdits = EmptyRecord
  /\ inflight = {}
  /\ toggled = NoToggles
  /\ sessionStart = EmptyRecord
  /\ sessionClean = FALSE
  /\ analysis = NoAnalysis
  /\ stored \in StoredItems
  /\ startup = [pc |-> "mounted", queued |-> NoItem, before |-> stored]

\* What the mount effects leave alone.
uiVars == <<view, selectedHabitId, showSettings, isEditingCalendar, pendingEdits,
            inflight, toggled, sessionStart, sessionClean, analysis>>

\* Load data on mount: setData(JSON.parse(stored)) queues the update.
loadEffect ==
  /\ startup.pc = "mounted"
  /\ startup' = [startup EXCEPT !.pc = "loaded",
                                !.queued = IF stored.present THEN stored ELSE NoItem]
  /\ UNCHANGED <<habits, completions, stored, uiVars>>

\* Save data on change, as it runs after the first render: data is INITIAL_DATA.
saveOnMount ==
  /\ startup.pc = "loaded"
  /\ stored' = item(habits, completions)
  /\ startup' = [startup EXCEPT !.pc = "saved"]
  /\ UNCHANGED <<habits, completions, uiVars>>

\* The render that applies the queued setData; without one the mount is over.
applyLoaded ==
  /\ startup.pc = "saved"
  /\ IF startup.queued.present
     THEN /\ habits' = startup.queued.habits
          /\ completions' = startup.queued.completions
          /\ startup' = [startup EXCEPT !.pc = "rendered", !.queued = NoItem]
     ELSE /\ UNCHANGED <<habits, completions>>
          /\ startup' = [startup EXCEPT !.pc = "done"]
  /\ UNCHANGED <<stored, uiVars>>

\* Save data on change, after that render.
saveLoaded ==
  /\ startup.pc = "rendered"
  /\ stored' = item(habits, completions)
  /\ startup' = [startup EXCEPT !.pc = "done"]
  /\ UNCHANGED <<habits, completions, uiVars>>

\* The handlers run once the mount is over.
NextStart ==
  \/ loadEffect
  \/ saveOnMount
  \/ applyLoaded
  \/ saveLoaded
  \/ (startup.pc = "done" /\ Next)

SpecStart == InitStart /\ [][NextStart]_vars

-----------------------------------------------------------------------------
\* A StatsView whose history, calendar grid and frequency grid are analysed:
\* today is one of a few dates, the keys of its completions prop are among a
\* few days around and long before today.
TodayDates ==
  {daysFromCivil(2000, 1, 5), daysFromCivil(2024, 2, 29), daysFromCivil(2024, 12, 31)}

\* The days that may be keys, as offsets from today, and those of them that
\* stored data may hold as done when the view opens.
KeyOffsets == {0 - 1200, 0 - 400, 0 - 40, 0 - 1, 0, 1}
OldOffsets == {0 - 1200, 0 - 400}
KeyDays(today) == {today + o : o \in KeyOffsets}

historyToday == analysis.today

InitHistory ==
  /\ habits = {}
  /\ completions = INITIAL_DATA
  /\ view = "LIST"
  /\ selectedHabitId = "null"
  /\ showSettings = FALSE
  /\ isEditingCalendar = FALSE
  /\ pendingEdits = EmptyRecord
  /\ inflight = {}
  /\ toggled = NoToggles
  /\ sessionStart = EmptyRecord
  /\ sessionClean = FALSE
  /\ stored = item(habits, completions)
  /\ startup = Started
  /\ \E today \in TodayDates, w \in BOOLEAN, old \in SUBSET OldOffsets :
       analysis = [completions |-> [d \in KeyDays(today) |->
                                      IF d - today \in old THEN "true" ELSE "absent"],
                   west |-> w, imported |-> FALSE, today |-> today]

\* The prop after App.toggleCompletion on a day of the calendar grid that is
\* not after today.
HistoryToggle(d) ==
  /\ d <= historyToday
  /\ d >= weeks(analysis.completions, historyToday)[1][1]
  /\ LET prev == [h \in {StoredHabit} |-> analysis.completions]
     IN  analysis' = [analysis EXCEPT
                        !.completions = toggleCompletion(prev, StoredHabit, d)[StoredHabit]]
  /\ UNCHANGED appSide

\* The prop after an import that adds one key.
HistoryImport(d, m) ==
  /\ ~analysis.imported
  /\ ~Truthy(analysis.completions[d])
  /\ analysis' = [analysis EXCEPT !.completions[d] = m, !.imported = TRUE]
  /\ UNCHANGED appSide

NextHistory ==
  \/ \E d \in KeyDays(historyToday) : HistoryToggle(d)
  \/ \E d \in KeyDays(historyToday), m \in ImportMarkers : HistoryImport(d, m)

SpecHistory == InitHistory /\ [][NextHistory]_vars

-----------------------------------------------------------------------------
\* The StatsView is rendered, in the current state.
StatsOpen == Mounted(view, selectedHabitId, habits)

\* A click on some calendar cell.
GridToggle == \E d \in Days : ClickCell(d)

\* C1: while the calendar is in EDITING, a click on a day cell changes the
\* overlay only: the habits and every CompletionMap of data are the same
\* after the step, and so is everything computed from them.
C1_EditingToggleKeepsData ==
  [][(isEditingCalendar /\ GridToggle) =>
       (completions' = completions /\ habits' = habits)]_vars

\* C1 witness: an EDITING state whose overlay holds an entry a toggle put there.
C1_Witness ==
  StatsOpen /\ isEditingCalendar /\ \E d \in Days : pendingEdits[d] = "true"

\* C2: the commit (DONE) makes the map equal to the preview: for every day,
\* the done-state after the step is the effective value before it.
C2_CommitEqualsPreview ==
  [][(isEditingCalendar /\ ClickEditDone) =>
       \A d \in Days : IsDone(selectedCompletions[d])' = getVisualCompletion(d)]_vars

\* C3: in EDITING, a click on a cell that is not in the future flips the
\* effective value of that day, whether the day is done or not.
C3_EditingToggleFlips ==
  [][\A d \in Days : (isEditingCalendar /\ ClickCell(d)) =>
       (getVisualCompletion(d)' # getVisualCompletion(d))]_vars

\* C4: in EDITING, from an overlay without an entry for a day that is not in
\* the future, toggling the day twice gives an overlay without an entry for
\* it; and in a session no outside write disturbed, the overlay has no entry
\* for a day toggled an even number of times.
C4_DoubleToggleRestores ==
  (StatsOpen /\ isEditingCalendar) =>
    \A d \in Days :
      /\ (~cellDisabled(d) /\ pendingEdits[d] = "absent") =>
           togglePending(togglePending(pendingEdits, selectedCompletions, d),
                         selectedCompletions, d)[d] = "absent"
      /\ (sessionClean /\ toggled[d] = "even") => pendingEdits[d] = "absent"

\* C4 witness: a day that was not done has been toggled twice in the open
\* session (the first toggle added its entry) and has no entry.
C4_Witness ==
  /\ StatsOpen /\ isEditingCalendar /\ sessionClean
  /\ \E d \in Days : /\ toggled[d] = "even"
                     /\ ~Truthy(selectedCompletions[d])
                     /\ pendingEdits[d] = "absent"

\* C5: right after the commit of an edit session that only toggled and
\* committed, a day toggled an even number of times in it has the marker it
\* had when the session opened.
C5_EvenTogglesCommitKeepsDay ==
  (StatsOpen /\ ~isEditingCalendar /\ sessionClean) =>
    \A d \in Days : toggled[d] = "even" => selectedCompletions[d] = sessionStart[d]

\* C5 witness: a committed session in which a day that was not done was
\* toggled to done and back, and another day was toggled once.
C5_Witness ==
  /\ StatsOpen /\ ~isEditingCalendar /\ sessionClean
  /\ \E d, e \in Days : /\ toggled[d] = "even" /\ ~Truthy(sessionStart[d])
                        /\ toggled[e] = "odd"

\* C6: in VIEWING, a click on a cell is a click on today's cell, it flips
\* today's done-state in the map, and it changes no other day.
C6_ViewingToggleFlipsToday ==
  [][\A d \in Days : (~isEditingCalendar /\ ClickCell(d)) =>
       /\ d = Today
       /\ IsDone(selectedCompletions[Today])' # IsDone(selectedCompletions[Today])
       /\ \A e \in Days \ {Today} : selectedCompletions'[e] = selectedCompletions[e]]_vars

\* C7: no click on a calendar cell and no commit leaves an overlay entry for
\* a day after today or changes the marker of a day after today.
C7_FutureDaysUntouched ==
  [][(GridToggle \/ ClickEditDone) =>
       \A d \in Days : d > Today =>
         /\ pendingEdits'[d] = "absent"
         /\ \A h \in HabitIds : completions'[h][d] = completions[h][d]]_vars

\* C7 witness: a session with a toggle has been committed while the day
\* after today is done in the map.
C7_Witness ==
  /\ StatsOpen /\ ~isEditingCalendar /\ sessionClean
  /\ \E d \in Days : toggled[d] = "odd" /\ IsDone(selectedCompletions[d])
  /\ IsDone(selectedCompletions[Today + 1])

C9_OverlayMinimal ==
  (StatsOpen /\ isEditingCalendar) =>
    \A d \in Keys(pendingEdits) :
      (pendingEdits[d] = "true") # IsDone(selectedCompletions[d])

\* C10: the commit of an overlay whose every entry is the done-state its day
\* has in the map leaves the CompletionMaps as they are.
C10_CommitOfSameValuesKeepsMap ==
  [][(/\ isEditingCalendar /\ ClickEditDone
      /\ \A d \in Keys(pendingEdits) :
           (pendingEdits[d] = "true") = IsDone(selectedCompletions[d]))
       => completions' = completions]_vars

\* C11: the CompletionMaps a commit leaves are the same for every order in
\* which the overlay's entries are replayed through toggleCompletion.
C11_ReplayOrderIndependent ==
  [][(isEditingCalendar /\ ClickEditDone)
       => \A keys \in Orders(Keys(pendingEdits)) :
            completions' = replay(completions, selectedHabitId, keys)]_vars

\* C11 witness: VIEWING, right after the commit of an overlay with two entries
\* (opened on a record without keys on those days).
C11_Witness ==
  /\ StatsOpen /\ ~isEditingCalendar /\ sessionClean
  /\ \E d, e \in Days :
       /\ d # e
       /\ toggled[d] = "odd" /\ toggled[e] = "odd"
       /\ sessionStart[d] = "absent" /\ sessionStart[e] = "absent"
       /\ IsDone(selectedCompletions[d]) /\ IsDone(selectedCompletions[e])

\* C12: the state a commit leaves for the render and the save effect is never
\* one in which a non-empty proper part of the overlay's entries is applied.
C12_CommitAtomic ==
  [][(isEditingCalendar /\ ClickEditDone)
       => \A S \in SUBSET Keys(pendingEdits) :
            (S # {} /\ S # Keys(pendingEdits))
              => \A keys \in Orders(S) :
                   completions' # replay(completions, selectedHabitId, keys)]_vars

\* C12 witness: VIEWING, right after the commit of an overlay with two
\* entries, one of them on a day whose stored marker was false.
C12_Witness ==
  /\ StatsOpen /\ ~isEditingCalendar /\ sessionClean
  /\ \E d, e \in Days :
       /\ d # e
       /\ toggled[d] = "odd" /\ toggled[e] = "odd"
       /\ sessionStart[d] = "false" /\ sessionStart[e] = "absent"
       /\ selectedCompletions[d] = "true" /\ selectedCompletions[e] = "true"

\* C13: the habit-list card shows a day as completed exactly when its marker
\* is true, 1 or 2, as the calendar, the score and the streaks read it.
C13_ReadersAgreeOnDone ==
  \A h \in habits : \A d \in recentDays :
    isCompleted(h, d) = IsDone(completions[h][d])

-----------------------------------------------------------------------------
\* The completions prop and the time zone of the StatsView analysed.
statsRecord == analysis.completions
statsWest == analysis.west

\* The days of the record with a done marker.
doneSet(record) == {d \in StatsDays : IsDone(record[d])}

RECURSIVE SumLengths(_)
SumLengths(seq) == IF seq = << >> THEN 0 ELSE Head(seq).length + SumLengths(Tail(seq))

\* C14: a key with marker false added to the map changes no derived result:
\* the score series, the current score and the streaks are those of the map
\* without the key.
C14_FalseKeysChangeNothing ==
  \A d \in StatsDays :
    statsRecord[d] = "absent" =>
      LET extended == [statsRecord EXCEPT ![d] = "false"]
      IN  /\ allScores(extended, statsWest) = allScores(statsRecord, statsWest)
          /\ score(extended, statsWest) = score(statsRecord, statsWest)
          /\ streaks(extended) = streaks(statsRecord)

\* C15: the score series obeys the recurrence with seed 0: an entry is the
\* entry of the day before (0 when there is none) times the multiplier, plus
\* (1 - multiplier) when the day is done; a done earliest key has the score
\* 1 - multiplier, which rounds to 5 percent.
C15_ScoreRecurrence ==
  LET scoreMap == allScores(statsRecord, statsWest)
      checkmark(d) == IF d \in StatsDays /\ IsDone(statsRecord[d]) THEN 1 ELSE 0
      before(d) == IF d - 1 \in DOMAIN scoreMap THEN scoreMap[d - 1] ELSE 0
  IN  /\ \A d \in DOMAIN scoreMap :
           scoreMap[d] = (before(d) * Multiplier) \div Scale
                           + checkmark(d) * (Scale - Multiplier)
      /\ \A d \in DOMAIN scoreMap :
           (d = Min(StatsKeys(statsRecord)) /\ IsDone(statsRecord[d]))
             => /\ scoreMap[d] = Scale - Multiplier
                /\ roundPercent(scoreMap[d]) = 5

\* C15 witness: a series over a done day, a day that is not done and a day
\* with the legacy marker 2.
C15_Witness ==
  /\ statsRecord[2] = "true" /\ statsRecord[3] = "absent" /\ statsRecord[4] = "2"
  /\ Min(StatsKeys(statsRecord)) = 2
  /\ StatsToday \in DOMAIN allScores(statsRecord, statsWest)

\* C16: every score of the series is between 0 and 1, and the current score
\* is an integer between 0 and 100.
C16_ScoreBounded ==
  LET scoreMap == allScores(statsRecord, statsWest)
  IN  /\ \A d \in DOMAIN scoreMap : scoreMap[d] >= 0 /\ scoreMap[d] <= Scale
      /\ score(statsRecord, statsWest) \in 0 .. 100

\* C16 witness: every day up to today is done, the highest score of the window.
C16_Witness ==
  /\ \A d \in StatsDays : d <= StatsToday => IsDone(statsRecord[d])
  /\ score(statsRecord, statsWest) > 0

\* C17: the score series has an entry for exactly the days from the earliest
\* key of the map through today.
C17_SeriesFromEarliestKeyToToday ==
  (StatsKeys(statsRecord) # {} /\ Min(StatsKeys(statsRecord)) <= StatsToday)
    => DOMAIN allScores(statsRecord, statsWest)
         = Min(StatsKeys(statsRecord)) .. StatsToday

\* C18: the lengths of the streaks detected, before sort and slice, sum to
\* the number of done days.
C18_StreakLengthsSumToDoneDays ==
  SumLengths(closedStreaks(statsRecord)) = Cardinality(doneSet(statsRecord))

\* C18 witness: three streaks or more, of different lengths, one of them on a
\* day with the legacy marker 2.
C18_Witness ==
  LET all == closedStreaks(statsRecord)
  IN  /\ Len(all) >= 3
      /\ \E i, j \in 1 .. Len(all) : all[i].length # all[j].length
      /\ \E d \in StatsDays : statsRecord[d] = "2"

\* C19: every streak is a maximal run of done days: the days from start to
\* end are done, length counts them, the day before start and the day after
\* end are not done; the days 1..5 done and nothing else give the one streak
\* from 1 to 5 of length 5.
C19_StreaksAreMaximalRuns ==
  LET all == closedStreaks(statsRecord)
      done(d) == d \in StatsDays /\ IsDone(statsRecord[d])
  IN  /\ \A i \in 1 .. Len(all) :
           /\ \A d \in all[i].start .. all[i].end : done(d)
           /\ all[i].length = all[i].end - all[i].start + 1
           /\ all[i].length >= 1
           /\ ~done(all[i].start - 1)
           /\ ~done(all[i].end + 1)
      /\ doneSet(statsRecord) = 1 .. 5
           => streaks(statsRecord) = <<[start |-> 1, end |-> 5, length |-> 5]>>

\* C19 witness: the days 1..5 done, day 6 without key, and a key that is not done.
C19_Witness ==
  /\ doneSet(statsRecord) = 1 .. 5
  /\ statsRecord[6] = "absent"
  /\ \E d \in StatsDays : statsRecord[d] = "3"

\* C20: the list returned holds the 5 longest streaks (all when there are at
\* most 5), longest first, streaks of equal length in chronological order,
\* and a streak left out is neither longer than a returned one nor an
\* earlier streak of the same length.
C20_TopFiveStreaks ==
  LET all == closedStreaks(statsRecord)
      top == streaks(statsRecord)
      Elems(seq) == {seq[i] : i \in 1 .. Len(seq)}
  IN  /\ Len(top) = IF Len(all) <= 5 THEN Len(all) ELSE 5
      /\ Elems(top) \subseteq Elems(all)
      /\ Cardinality(Elems(top)) = Len(top)
      /\ \A i, j \in 1 .. Len(top) :
           i < j => \/ top[i].length > top[j].length
                    \/ top[i].length = top[j].length /\ top[i].start < top[j].start
      /\ \A s \in Elems(all) \ Elems(top) : \A t \in Elems(top) :
           \/ s.length < t.length
           \/ s.length = t.length /\ s.start > t.start

\* C20 witness: six streaks, the longest of them not the earliest.
C20_Witness ==
  LET all == closedStreaks(statsRecord)
      top == streaks(statsRecord)
  IN  /\ Len(all) = 6
      /\ Len(top) = 5
      /\ top[1].length = 2
      /\ top[1].start > all[1].start

\* C25: toggleCompletion(h, d) flips the done-state of day d of habit h,
\* leaves every other day and every other habit as it was, and never stores
\* the marker false.
C25_ToggleFlipsOnlyItsDay ==
  [][\A h \in HabitIds : \A d \in Days :
       CardToggle(h, d)
         => /\ IsDone(completions'[h][d]) # IsDone(completions[h][d])
            /\ completions'[h][d] # "false"
            /\ \A g \in HabitIds : \A e \in Days :
                 (g # h \/ e # d) => completions'[g][e] = completions[g][e]]_vars

\* C26: when an import result is applied, every habit and every done day of
\* the state it is applied to is still there afterwards.
C26_ImportKeepsCurrentData ==
  [][\A i \in inflight :
       handleImport(i)
         => /\ habits \subseteq habits'
            /\ \A h \in habits : \A d \in Days :
                 IsDone(completions[h][d]) => IsDone(completions'[h][d])]_vars

\* C27: the overlay holds no value but true, and after an edit session of
\* toggles and its commit every day that was done when the session opened
\* is still done.
C27_SessionOnlyAdds ==
  /\ (StatsOpen /\ isEditingCalendar)
       => \A d \in Keys(pendingEdits) : pendingEdits[d] = "true"
  /\ (StatsOpen /\ ~isEditingCalendar /\ sessionClean)
       => \A d \in Days : IsDone(sessionStart[d]) => IsDone(selectedCompletions[d])

\* C27 witness: VIEWING, right after the commit of a session in which a day
\* that was done and a day that was not done were each clicked once.
C27_Witness ==
  /\ StatsOpen /\ ~isEditingCalendar /\ sessionClean
  /\ \E d, e \in Days :
       /\ toggled[d] = "odd" /\ IsDone(sessionStart[d])
       /\ toggled[e] = "odd" /\ ~Truthy(sessionStart[e])
       /\ IsDone(selectedCompletions[e])

\* C29: leaving the StatsView in EDITING, by Back or by deleting the habit,
\* applies nothing: the maps of the remaining habits are as they were (as
\* when the session opened), and outside the view, and on the next visit,
\* the calendar is in VIEWING with an empty overlay.
C29_LeavingDiscardsOverlay ==
  /\ [][(isEditingCalendar /\ (Back \/ deleteHabit))
          => /\ \A h \in habits' : completions'[h] = completions[h]
             /\ \A h \in habits' :
                  (sessionClean /\ h = selectedHabitId) => completions'[h] = sessionStart
             /\ ~isEditingCalendar' /\ pendingEdits' = EmptyRecord]_vars
  /\ [][\A h \in HabitIds :
          SelectHabit(h) => ~isEditingCalendar' /\ pendingEdits' = EmptyRecord]_vars
  /\ [](~StatsOpen => ~isEditingCalendar /\ pendingEdits = EmptyRecord)

\* C29 witness: EDITING with an overlay entry and no write from outside the
\* session, the state Back and the habit's deletion leave the view from.
C29_Witness ==
  /\ StatsOpen /\ isEditingCalendar /\ sessionClean
  /\ \E d \in Days : pendingEdits[d] = "true" /\ ~IsDone(selectedCompletions[d])
  /\ \E d \in Days : IsDone(selectedCompletions[d])

\* C30: from the mount on, while data other than the empty initial data was
\* stored, the store does not hold the empty initial data before the mount is
\* over, and when the mount is over the store holds the item found at mount.
C30_StartupLoadsBeforeSaving ==
  /\ []((/\ startup.pc # "done"
         /\ startup.before.present
         /\ startup.before # item({}, INITIAL_DATA))
          => stored # item({}, INITIAL_DATA))
  /\ [][(startup.pc # "done" /\ startup'.pc = "done" /\ startup.before.present)
          => stored' = startup.before]_vars

\* The period of a history range as a number that grows by one from a
\* calendar period to the next: the year, the quarter, the month, the week.
C21_index(historyRange, period) ==
  CASE historyRange = "YEARLY" -> period
    [] historyRange = "QUARTERLY" -> 4 * period[1] + period[2] - 1
    [] historyRange = "MONTHLY" -> 12 * period[1] + period[2] - 1
    [] historyRange = "WEEKLY" -> (period - 4) \div 7

\* The period of the computed start and the period that contains today.
C21_first(historyRange) ==
  LET startYear == historyStartYear(statsRecord, historyToday)
  IN  CASE historyRange = "YEARLY" -> startYear
        [] historyRange = "QUARTERLY" -> <<startYear, 1>>
        [] historyRange = "MONTHLY" -> <<startYear, 1>>
        [] historyRange = "WEEKLY" ->
             mondayOf(weeklyStartDate(statsRecord, historyToday, statsWest))

C21_last(historyRange) ==
  CASE historyRange = "YEARLY" -> getFullYear(historyToday)
    [] historyRange = "QUARTERLY" ->
         <<getFullYear(historyToday), quarterOf(getMonth(historyToday) + 1)>>
    [] historyRange = "MONTHLY" -> <<getFullYear(historyToday), getMonth(historyToday) + 1>>
    [] historyRange = "WEEKLY" -> mondayOf(historyToday)

\* C21: for each history range the series is dense: it holds one bucket for
\* every calendar period from the computed start through the period that
\* contains today, in order, none skipped and none twice, the periods
\* without a done day included.
C21_HistoryDense ==
  \A r \in HistoryRanges :
    LET data == historyData(statsRecord, historyToday, statsWest, r)
        first == C21_index(r, C21_first(r))
        last == C21_index(r, C21_last(r))
    IN  /\ Len(data) = IF last >= first THEN last - first + 1 ELSE 0
        /\ \A k \in 1 .. Len(data) :
             /\ C21_index(r, data[k].period) = first + k - 1
             /\ r = "WEEKLY" => getDay(data[k].period) = 1
             /\ r = "QUARTERLY" => data[k].period[2] \in 1 .. 4
             /\ r = "MONTHLY" => data[k].period[2] \in 1 .. 12

\* Every range has buckets without a done day between buckets with one, and
\* its last bucket is the period of today.
C21_Witness ==
  \A r \in HistoryRanges :
    LET data == historyData(statsRecord, historyToday, statsWest, r)
    IN  /\ Len(data) >= 3
        /\ data[Len(data)].period = C21_last(r)
        /\ \E i, j, k \in 1 .. Len(data) :
             /\ i < j /\ j < k
             /\ data[i].count > 0 /\ data[j].count = 0 /\ data[k].count > 0

\* The sum of the counts of the buckets lo .. hi of a series.
RECURSIVE SumCounts(_, _, _)
SumCounts(data, lo, hi) ==
  IF lo > hi THEN 0
  ELSE IF lo = hi THEN data[lo].count
  ELSE LET mid == (lo + hi) \div 2
       IN  SumCounts(data, lo, mid) + SumCounts(data, mid + 1, hi)

\* C28: for a map without a done day after today, the bucket counts of each
\* history range sum to the number of done days: every done day is counted
\* in exactly one bucket. (It fails only for done days before the year
\* MinYear, which the YEARLY, QUARTERLY and MONTHLY series leave out.)
C28_BucketsSumToDoneDays ==
  (\A d \in doneKeys(statsRecord) : d <= historyToday)
    => \A r \in HistoryRanges :
         LET data == historyData(statsRecord, historyToday, statsWest, r)
         IN  SumCounts(data, 1, Len(data)) = Cardinality(doneKeys(statsRecord))

\* The calendar grid of the analysed map.
C22_weeks == weeks(statsRecord, historyToday)

\* The weeks are 7 consecutive days from a Monday and follow one another
\* without a gap; the grid holds today and the day 14 days after today.
C22_gridShape(w) ==
  /\ Len(w) >= 1
  /\ \A k \in 1 .. Len(w) :
       /\ DOMAIN w[k] = 1 .. 7
       /\ getDay(w[k][1]) = 1
       /\ \A i \in 1 .. 6 : w[k][i + 1] = w[k][i] + 1
  /\ \A k \in 1 .. (Len(w) - 1) : w[k + 1][1] = w[k][7] + 1
  /\ \E k \in 1 .. Len(w) : \E i \in 1 .. 7 : w[k][i] = historyToday
  /\ \E k \in 1 .. Len(w) : \E i \in 1 .. 7 : w[k][i] = historyToday + 14

\* The range start for a given set of completion days: the earlier of one
\* year before today and the first of them, not earlier than 3 years before
\* today.
C22_rangeStart(completionDays) ==
  LET oneYear == setFullYear(historyToday, getFullYear(historyToday) - 1)
      threeYears == setFullYear(historyToday, getFullYear(historyToday) - 3)
      first == IF completionDays = {} THEN oneYear ELSE Min(completionDays)
      earlier == IF first < oneYear THEN first ELSE oneYear
  IN  IF earlier < threeYears THEN threeYears ELSE earlier

\* C22: the calendar grid is a gap-free sequence of weeks of 7 consecutive
\* days that start on a Monday; its first day is the Monday on or before the
\* range start (the earlier of one year before today and the first done day,
\* not earlier than 3 years before today); it holds today and today + 14.
C22_CalendarGrid ==
  /\ C22_gridShape(C22_weeks)
  /\ C22_weeks[1][1] = mondayOf(C22_rangeStart(doneKeys(statsRecord)))

\* The frequency grid of the analysed map, the number of a calendar month
\* (it grows by one from a month to the next) and the month of an entry.
C23_data == frequencyData(statsRecord, historyToday, statsWest)
C23_monthOf(n) == 12 * getFullYear(n) + getMonth(n)
C23_entryMonth(entry) == 12 * entry.month[1] + entry.month[2] - 1

\* The done days of the map in a calendar month.
C23_doneIn(m) == {d \in doneKeys(statsRecord) : C23_monthOf(d) = m}

\* The start month: the month of the first done day or of one year before
\* today, whichever is earlier.
C23_startMonth ==
  LET done == doneKeys(statsRecord)
      oneYear == setFullYear(historyToday, getFullYear(historyToday) - 1)
  IN  IF done # {} /\ Min(done) < oneYear THEN C23_monthOf(Min(done))
      ELSE C23_monthOf(oneYear)

\* C23: for every calendar month from the start month through the month of
\* today the frequency grid holds one entry (no month has two), and the
\* distribution of an entry is the vector indexed by the weekdays
\* 0 (Sunday) .. 6 whose entry w is the number of done days of the month on
\* weekday w: the 7 entries sum to the number of done days of that month.
C23_FrequencyGrid ==
  LET data == C23_data
      months == {C23_entryMonth(data[k]) : k \in 1 .. Len(data)}
  IN  /\ (C23_startMonth .. C23_monthOf(historyToday)) \subseteq months
      /\ Cardinality(months) = Len(data)
      /\ \A k \in 1 .. Len(data) :
           LET entry == data[k]
               days == C23_doneIn(C23_entryMonth(entry))
               dist == [w \in 0 .. 6 |-> Cardinality({d \in days : getDay(d) = w})]
           IN  /\ entry.distribution = dist
               /\ dist[0] + dist[1] + dist[2] + dist[3] + dist[4] + dist[5] + dist[6]
                    = Cardinality(days)

\* The month of today has done days on two weekdays, its last day among
\* them, and a month more than a year back has a done day.
C23_Witness ==
  /\ Len(C23_data) > 13
  /\ IsDone(statsRecord[historyToday])
  /\ getMonth(historyToday + 1) # getMonth(historyToday)
  /\ C23_data[1].distribution # [w \in 0 .. 6 |-> 0]
  /\ \E v, w \in 0 .. 6 :
       /\ v # w
       /\ C23_data[Len(C23_data)].distribution[v] > 0
       /\ C23_data[Len(C23_data)].distribution[w] > 0

\* C24: for a map without keys every derived result is its default: the
\* current score is 0, the streak list is empty, every history range has
\* buckets and all of them have count 0, and the calendar grid is built from
\* the Monday on or before one year before today through 14 days after
\* today.
C24_EmptyMapDefaults ==
  keysOf(statsRecord) = {}
    => /\ score(StatsEmpty, statsWest) = 0
       /\ streaks(StatsEmpty) = << >>
       /\ \A r \in HistoryRanges :
            LET data == historyData(statsRecord, historyToday, statsWest, r)
            IN  /\ Len(data) >= 1
                /\ \A k \in 1 .. Len(data) : data[k].count = 0
       /\ C22_gridShape(C22_weeks)
       /\ C22_weeks[1][1] =
            mondayOf(setFullYear(historyToday, getFullYear(historyToday) - 1))

\* A map without keys, on a day whose date one year before is a Sunday.
C24_Witness ==
  /\ keysOf(statsRecord) = {}
  /\ getDay(setFullYear(historyToday, getFullYear(historyToday) - 1)) = 0
  /\ Len(C22_weeks) > 52

====
